---- MODULE Spec2Model ----
(***************************************************************************)
(* A model of IDXVAL30 (idx_value_30.py): the factor table, winsorisation, *)
(* z-scoring, top-30 selection and the iterative weight capping.           *)
(*                                                                         *)
(* Conventions.                                                            *)
(*  - A ticker is its position in ticker_idx80 (1..U).                     *)
(*  - Weights are kept in thousandths: 0.15 is 150, np.round(x, 2) yields  *)
(*    a multiple of 10.  np.round is round-half-to-even; the model rounds  *)
(*    the exact quotient.                                                  *)
(*  - Market caps (mc, adj_mc) are kept in multiples of 1/Unit.            *)
(*  - A z-score is kept exactly, as the pair [num, rad] that stands for    *)
(*    num / sqrt(rad); rad = 0 is the 0/0 of a constant column (nan).      *)
(***************************************************************************)
EXTENDS Integers, Sequences, FiniteSets, TLC

\* ---------------------------------------------------------------- bounds
MaxU == 5
MaxMc == 6
MaxBig == 4
MaxRows == 80
MaxScoredRows == 5

\* the factor values the provider may supply
FactorVals == 1..2

\* ------------------------------------------------------- program constants
TopN == 30
limit_weight == 150
alpha == 5
WinsRef == 3
NaN == 0
Unit == 1000 * 60

VARIABLES
    pc,                 \* where generate_index (or the called method) stands
    ticker_idx80,       \* the universe, in file order
    info,               \* provider data per universe position (NaN: lookup raises / null)
    nticker,
    selection_df,       \* the factor table, a sequence of rows
    nstocks,            \* the argument of the last _select_stocks call
    selected_stocks,    \* the selected set, a sequence of rows
    columns,            \* the column names of selected_stocks, in order
    over_weight_stocks, \* the argument handed to _limit_cap: [columns, rows]
    df_index,           \* the table generate_index returns
    err                 \* the exception that ended the run, or "none"

vars == <<pc, ticker_idx80, info, nticker, selection_df, nstocks, selected_stocks,
          columns, over_weight_stocks, df_index, err>>

\* ----------------------------------------------------------------- helpers
Min(a, b) == IF a < b THEN a ELSE b

Range(s) == {s[i] : i \in 1..Len(s)}

Sum(s) ==
    LET F[i \in 0..Len(s)] == IF i = 0 THEN 0 ELSE F[i - 1] + s[i]
    IN  F[Len(s)]

Col(df, c) == [i \in 1..Len(df) |-> df[i][c]]

\* (mutant of RoundHalfEven: the quotient is truncated)
RoundDown(num, den) == num \div den

\* np.round of num/den to an integer number of units: round half to even
RoundHalfEven(num, den) ==
    LET q == num \div den
        r == num % den
    IN  IF 2 * r > den \/ (2 * r = den /\ q % 2 = 1) THEN q + 1 ELSE q


\* ------------------------------------------------------ 4.1 the factor table
\* lines 49-68: one row per universe position; a lookup that raises, or a
\* null value, leaves NaN in the cell
RawRows(tickers, data) ==
    [i \in 1..Len(tickers) |->
        [ticker |-> tickers[i], PE |-> data[i].trailingPE, PBV |-> data[i].priceToBook,
         PE_wins |-> NaN, PBV_wins |-> NaN,
         PE_zscore |-> [num |-> 0, rad |-> 0], PBV_zscore |-> [num |-> 0, rad |-> 0]]]

\* line 71: dropna() drops every row holding a NaN; lines 72-73 renumber 0..N-1
HasNa(row) == row.PE = NaN \/ row.PBV = NaN

\* (mutant of DropNa: only the first factor is looked at)
DropNaFirstFactor(df) == SelectSeq(df, LAMBDA row : row.PE # NaN)

DropNa(df) == SelectSeq(df, LAMBDA row : ~HasNa(row))

\* ------------------------------------------------------ 4.2 winsorisation
lb(n) == (alpha * n) \div 100

ub(n) == ((100 - alpha) * n) \div 100

\* sort_values(ascending = False): the 0-based position of row i in the sorted
\* column (equal values keep their table order; only the values by position
\* are read below, and those do not depend on the order among equals)
RankDesc(col) ==
    [i \in 1..Len(col) |->
        Cardinality({j \in 1..Len(col) : col[j] > col[i] \/ (col[j] = col[i] /\ j < i)})]

\* line 85 needs iloc[3], line 86 needs iloc[ub]
WinsRaises(n) == n <= WinsRef \/ ub(n) >= n

\* lines 84-87 for one column: the winsorised value of every row.  Line 85
\* overwrites the positions below lb with iloc[3]; line 86 then overwrites the
\* positions from ub on with what iloc[ub] holds by then.
\* (rk is bound as a value so that the ranking is computed once.)
WinsCol(col) ==
    LET n == Len(col)
        Wins(rk) ==
            LET At(r)  == col[CHOOSE i \in 1..n : rk[i] = r]
                top    == At(WinsRef)
                bottom == IF ub(n) < lb(n) THEN top ELSE At(ub(n))
            IN  [i \in 1..n |->
                    IF rk[i] >= ub(n) THEN bottom
                    ELSE IF rk[i] < lb(n) THEN top
                    ELSE col[i]]
    IN  CHOOSE w \in {Wins(rk) : rk \in {RankDesc(col)}} : TRUE

WinsDf(df) ==
    LET pe  == WinsCol(Col(df, "PE"))
        pbv == WinsCol(Col(df, "PBV"))
    IN  [i \in 1..Len(df) |-> [df[i] EXCEPT !.PE_wins = pe[i], !.PBV_wins = pbv[i]]]

\* ------------------------------------------------------ 4.3 z-scores
\* lines 96-98: (x - mean) / std with the population std.  With S the column
\* sum and SS the sum of squares, (x - S/n) / sqrt(SS/n - (S/n)^2) equals
\* (n*x - S) / sqrt(n*SS - S^2)
ZCol(col) ==
    LET n  == Len(col)
        S  == Sum(col)
        SS == Sum([i \in 1..n |-> col[i] * col[i]])
    IN  [i \in 1..n |-> [num |-> n * col[i] - S, rad |-> n * SS - S * S]]

ZscoreDf(df) ==
    LET pe  == ZCol(Col(df, "PE_wins"))
        pbv == ZCol(Col(df, "PBV_wins"))
    IN  [i \in 1..Len(df) |-> [df[i] EXCEPT !.PE_zscore = pe[i], !.PBV_zscore = pbv[i]]]

\* lines 105-110: agg_score = (PE_zscore + PBV_zscore) / 2; nan when either is
AggIsNan(row) == row.PE_zscore.rad = 0 \/ row.PBV_zscore.rad = 0

\* a * sqrt(P) < b * sqrt(R), for P, R > 0
SqrtLess(a, P, b, R) ==
    IF a <= 0 /\ b >= 0 THEN a < 0 \/ b > 0
    ELSE IF a >= 0 /\ b <= 0 THEN FALSE
    ELSE IF a > 0 THEN a * a * P < b * b * R
    ELSE a * a * P > b * b * R

\* agg_score of r1 < agg_score of r2 (never true of a nan)
AggLess(r1, r2) ==
    /\ ~AggIsNan(r1)
    /\ ~AggIsNan(r2)
    /\ SqrtLess(r1.PE_zscore.num - r2.PE_zscore.num, r2.PBV_zscore.rad,
                r2.PBV_zscore.num - r1.PBV_zscore.num, r1.PE_zscore.rad)

\* ------------------------------------------------------ 4.4 selection
\* the columns selected_stocks inherits from selection_df (lines 50-110)
SelColumns ==
    <<"ticker", "PE", "PBV", "PE_wins", "PBV_wins", "PE_zscore", "PBV_zscore", "agg_score">>

\* sort_values(by = 'agg_score'): ascending, nan last in table order.  The
\* default kind is quicksort, which is not stable: rows of equal score may
\* come out in any order, so every such order is an outcome.
\* The rows of `left` that may come next: a row no other row is below or, once
\* only nan rows are left, the first of them in table order.
SortFirsts(df, left) ==
    IF \A i \in left : AggIsNan(df[i])
    THEN {i \in left : \A j \in left : i <= j}
    ELSE {i \in left : ~AggIsNan(df[i]) /\ \A j \in left : ~AggLess(df[j], df[i])}

RECURSIVE SortFrom(_, _)
SortFrom(df, left) ==
    IF left = {} THEN {<<>>}
    ELSE UNION {{<<i>> \o t : t \in SortFrom(df, left \ {i})} : i \in SortFirsts(df, left)}

SortOrders(df) == SortFrom(df, 1..Len(df))

\* what a row of selected_stocks holds once the weight columns are added; the
\* factor columns are not read after selection and are left out of the row
\* (columns keeps their names)
SelRow(row) == [ticker |-> row.ticker, mc |-> 0, mc_weight |-> 0, adj_mc |-> 0, adj_mc_weight |-> 0]

\* line 114: the head of the sorted table; the slice is [:30] whatever nstocks is
SelectHead(sorted, k) == SubSeq(sorted, 1, Min(TopN, Len(sorted)))

\* ------------------------------------------------------ 4.5 weights
\* the market caps the provider returns for n selected rows (line 126), in
\* units of the smallest one.  The capping reads no other column and treats
\* all rows alike, so they are drawn in non-decreasing row order; at most
\* MaxBig rows are above the unit.
McDraws(n) ==
    UNION {{[i \in 1..n |-> IF i <= n - b THEN 1 ELSE big[i - (n - b)]] :
              big \in {t \in [1..b -> 2..MaxMc] : \A v \in 1..(b - 1) : t[v] <= t[v + 1]}} :
           b \in 0..Min(MaxBig, n)}

\* lines 130-131: mc_weight = np.round(mc / tot_mc, 2), in thousandths
McWeights(df) ==
    LET tot_mc == Sum(Col(df, "mc"))
    IN  [i \in 1..Len(df) |-> [df[i] EXCEPT !.mc_weight = 10 * RoundHalfEven(100 * df[i].mc, tot_mc)]]

\* (mutant of OverMask: the three-decimal weights are compared as if they had
\* two decimals, over the cap from 0.16 on)
OverMaskTwoDecimals(df, c) == {i \in 1..Len(df) : df[i][c] >= limit_weight + 10}

\* lines 134/143: the labels of the rows whose weight column exceeds the limit
OverMask(df, c) == {i \in 1..Len(df) : df[i][c] > limit_weight}

\* lines 136/146: df.loc[mask, :] copies the masked rows with every column the
\* frame has at that moment
Snapshot(df, cols, c) ==
    [columns |-> cols,
     rows    |-> SelectSeq([i \in 1..Len(df) |-> [index |-> i, row |-> df[i]]],
                           LAMBDA r : r.index \in OverMask(df, c))]

NoTable == [columns |-> <<>>, rows |-> <<>>]

\* a cell's value in multiples of 1/Unit: weights are kept in thousandths
InUnits(c, v) == IF c \in {"mc_weight", "adj_mc_weight"} THEN v * (Unit \div 1000) ELSE v

\* line 164: rows[-1], the row's last cell by position
LastCell(table, r) ==
    LET c == table.columns[Len(table.columns)] IN InUnits(c, r.row[c])

\* (mutant of NewAdjMc: every row of the frame is divided, not the
\* over-weight rows alone)
NewAdjMcAll(df, over) ==
    [i \in 1..Len(df) |-> [df[i] EXCEPT !.adj_mc = df[i].adj_mc \div Len(over.rows)]]

\* lines 158-166: every over-weight row gets (1/n_over) * rows[-1]
\* (adjust_rate and the first mc_s, lines 159-160, are overwritten unread)
NewAdjMc(df, over) ==
    LET n_over    == Len(over.rows)
        new_mc(r) == LastCell(over, over.rows[r]) \div n_over
    IN  [i \in 1..Len(df) |->
            IF \E r \in 1..n_over : over.rows[r].index = i
            THEN [df[i] EXCEPT !.adj_mc =
                      new_mc(CHOOSE r \in 1..n_over : over.rows[r].index = i)]
            ELSE df[i]]

\* lines 168-169: adj_mc_weight = np.round(adj_mc / tot_adj_mc, 3)
\* (the frame and its total are bound as values so that each is computed once)
AdjWeights(df) ==
    LET Weights(d, tot_adj_mc) ==
            [i \in 1..Len(d) |->
                [d[i] EXCEPT !.adj_mc_weight = RoundHalfEven(1000 * d[i].adj_mc, tot_adj_mc)]]
    IN  CHOOSE w \in {Weights(e.df, e.tot) :
                        e \in {[df |-> d, tot |-> Sum(Col(d, "adj_mc"))] : d \in {df}}} : TRUE

HasColumn(cols, c) == \E i \in 1..Len(cols) : cols[i] = c

AddColumn(cols, c) == IF HasColumn(cols, c) THEN cols ELSE Append(cols, c)

\* ================================================================ actions
\* __init__ (lines 18-24): the universe is read from the file
Init ==
    /\ pc = "start"
    /\ \E U \in 0..MaxU : ticker_idx80 = [i \in 1..U |-> i] /\ nticker = U
    /\ info = <<>>
    /\ selection_df = <<>>
    /\ nstocks = 0
    /\ selected_stocks = <<>>
    /\ columns = <<>>
    /\ over_weight_stocks = NoTable
    /\ df_index = <<>>
    /\ err = "none"

\* _adjust_ticker and _query_data (lines 27-43, called at 173-174): what the
\* provider will answer for the two factors of each ticker
QueryData ==
    /\ pc = "start"
    /\ \E data \in [1..Len(ticker_idx80) ->
                      [trailingPE : {NaN} \cup FactorVals, priceToBook : {NaN} \cup FactorVals]] :
          info' = data
    /\ pc' = "queried"
    /\ UNCHANGED <<ticker_idx80, nticker, selection_df, nstocks, selected_stocks, columns,
                   over_weight_stocks, df_index, err>>

\* _generate_df_factors (lines 45-74)
GenerateDfFactors ==
    /\ pc = "queried"
    /\ selection_df' = DropNa(RawRows(ticker_idx80, info))
    /\ nticker' = Len(selection_df')
    /\ pc' = "factors"
    /\ UNCHANGED <<ticker_idx80, info, nstocks, selected_stocks, columns, over_weight_stocks,
                   df_index, err>>

\* _winsorisation (lines 76-87), called on its own
Winsorisation ==
    /\ pc = "factors"
    /\ IF WinsRaises(nticker)
       THEN /\ err' = "IndexError"
            /\ pc' = "raised"
            /\ UNCHANGED selection_df
       ELSE /\ selection_df' = WinsDf(selection_df)
            /\ pc' = "winsorised"
            /\ UNCHANGED err
    /\ UNCHANGED <<ticker_idx80, info, nticker, nstocks, selected_stocks, columns,
                   over_weight_stocks, df_index>>

\* _agg_zscore (lines 100-110), which calls _zscore (89-98), which calls
\* _winsorisation (76-87)
AggZscore ==
    /\ pc = "factors"
    /\ IF WinsRaises(nticker)
       THEN /\ err' = "IndexError"
            /\ pc' = "raised"
            /\ UNCHANGED selection_df
       ELSE /\ selection_df' = ZscoreDf(WinsDf(selection_df))
            /\ pc' = "scored"
            /\ UNCHANGED err
    /\ UNCHANGED <<ticker_idx80, info, nticker, nstocks, selected_stocks, columns,
                   over_weight_stocks, df_index>>

\* _select_stocks(nstocks = k) (lines 112-116)
SelectStocks(k) ==
    /\ pc = "scored"
    /\ nstocks' = k
    /\ \E p \in SortOrders(selection_df) :
          selected_stocks' =
              SelectHead([i \in 1..Len(selection_df) |-> SelRow(selection_df[p[i]])], k)
    /\ columns' = SelColumns
    /\ pc' = "selected"
    /\ UNCHANGED <<ticker_idx80, info, nticker, selection_df, over_weight_stocks, df_index, err>>

\* line 177: generate_index calls _select_stocks() with the default
GenerateIndexSelect == SelectStocks(TopN)

\* _select_stocks called with any selection size
SelectCall == \E k \in 1..TopN : SelectStocks(k)

\* _get_each_weight up to the loop (lines 118-138)
GetEachWeight ==
    /\ pc = "selected"
    /\ \E m \in McDraws(Len(selected_stocks)) :
          LET fetched  == [i \in 1..Len(selected_stocks) |->
                              [selected_stocks[i] EXCEPT !.mc = m[i] * Unit]]
              weighted == McWeights(fetched)
          IN  IF OverMask(weighted, "mc_weight") # {}
              THEN LET withadj == [i \in 1..Len(weighted) |->
                                      [weighted[i] EXCEPT !.adj_mc = weighted[i].mc]]
                       cols    == columns \o <<"mc", "mc_weight", "adj_mc">>
                   IN  /\ selected_stocks' = withadj
                       /\ columns' = cols
                       /\ over_weight_stocks' = Snapshot(withadj, cols, "mc_weight")
                       /\ pc' = "cap"
              ELSE /\ selected_stocks' = weighted
                   /\ columns' = columns \o <<"mc", "mc_weight">>
                   /\ pc' = "weighted"
                   /\ UNCHANGED over_weight_stocks
    /\ UNCHANGED <<ticker_idx80, info, nticker, selection_df, nstocks, df_index, err>>

\* _limit_cap (lines 156-169), called at line 142
LimitCap ==
    /\ pc = "cap"
    /\ selected_stocks' = AdjWeights(NewAdjMc(selected_stocks, over_weight_stocks))
    /\ columns' = AddColumn(columns, "adj_mc_weight")
    /\ pc' = "test"
    /\ UNCHANGED <<ticker_idx80, info, nticker, selection_df, nstocks, over_weight_stocks,
                   df_index, err>>

\* the loop test and the regrouping (lines 143-148)
LoopTest ==
    /\ pc = "test"
    /\ IF OverMask(selected_stocks, "adj_mc_weight") = {}
       THEN /\ pc' = "weighted"
            /\ UNCHANGED over_weight_stocks
       ELSE /\ over_weight_stocks' = Snapshot(selected_stocks, columns, "adj_mc_weight")
            /\ pc' = "cap"
    /\ UNCHANGED <<ticker_idx80, info, nticker, selection_df, nstocks, selected_stocks, columns,
                   df_index, err>>

\* generate_index, lines 181-183: selecting a column the frame lacks raises
GenerateIndexReturn ==
    /\ pc = "weighted"
    /\ IF HasColumn(columns, "adj_mc_weight")
       THEN /\ df_index' = [i \in 1..Len(selected_stocks) |->
                               [ticker |-> selected_stocks[i].ticker,
                                weight |-> selected_stocks[i].adj_mc_weight]]
            /\ pc' = "returned"
            /\ UNCHANGED err
       ELSE /\ err' = "KeyError"
            /\ pc' = "raised"
            /\ UNCHANGED df_index
    /\ UNCHANGED <<ticker_idx80, info, nticker, selection_df, nstocks, selected_stocks, columns,
                   over_weight_stocks>>

\* ========================================================= specifications
\* generate_index from construction up to the selection (lines 173-177).
\* pc = "selected" is where SpecWeights takes over: the tables are kept small
\* here, and with fewer than seven rows the weighting cannot return.
Next ==
    \/ QueryData
    \/ GenerateDfFactors
    \/ AggZscore
    \/ GenerateIndexSelect

Spec == Init /\ [][Next]_vars

\* generate_index from the selection on (lines 178-183), on a selected set of
\* up to 30 rows (_winsorisation lets no table of fewer than four rows through)
InitSelected ==
    /\ pc = "selected"
    /\ \E n \in (WinsRef + 1)..TopN :
          /\ ticker_idx80 = [i \in 1..n |-> i]
          /\ nticker = n
          /\ selected_stocks = [i \in 1..n |-> SelRow([ticker |-> i])]
    /\ info = <<>>
    /\ selection_df = <<>>
    /\ nstocks = TopN
    /\ columns = SelColumns
    /\ over_weight_stocks = NoTable
    /\ df_index = <<>>
    /\ err = "none"

NextWeights ==
    \/ GetEachWeight
    \/ LimitCap
    \/ LoopTest
    \/ GenerateIndexReturn

SpecWeights == InitSelected /\ [][NextWeights]_vars

\* the interpreter keeps running the loop: a call of _limit_cap that is due is
\* made, and so is the test that follows it
LiveWeights == SpecWeights /\ WF_vars(LimitCap) /\ WF_vars(LoopTest)

\* a factor table without NaN, as _generate_df_factors leaves it
FactorRow(t, pe, pbv) ==
    [ticker |-> t, PE |-> pe, PBV |-> pbv, PE_wins |-> NaN, PBV_wins |-> NaN,
     PE_zscore |-> [num |-> 0, rad |-> 0], PBV_zscore |-> [num |-> 0, rad |-> 0]]

\* _winsorisation on tables of up to MaxRows rows: PE climbs 1, 2, ... to a
\* plateau, PBV is the same column reversed
InitFactors ==
    /\ pc = "factors"
    /\ \E n \in 0..MaxRows : \E c \in 0..n :
          /\ ticker_idx80 = [i \in 1..n |-> i]
          /\ nticker = n
          /\ selection_df = [i \in 1..n |-> FactorRow(i, 1 + Min(i - 1, c), 1 + Min(n - i, c))]
    /\ info = <<>>
    /\ nstocks = 0
    /\ selected_stocks = <<>>
    /\ columns = <<>>
    /\ over_weight_stocks = NoTable
    /\ df_index = <<>>
    /\ err = "none"

SpecWins == InitFactors /\ [][Winsorisation]_vars

\* _select_stocks on the scored tables _agg_zscore leaves: every table of up
\* to MaxScoredRows rows that _winsorisation accepts
InitScored ==
    /\ pc = "scored"
    /\ \E n \in (WinsRef + 1)..MaxScoredRows :
          /\ ticker_idx80 = [i \in 1..n |-> i]
          /\ nticker = n
          /\ \E f \in [1..n -> FactorVals \X FactorVals] :
                selection_df = ZscoreDf(WinsDf([i \in 1..n |-> FactorRow(i, f[i][1], f[i][2])]))
    /\ info = <<>>
    /\ nstocks = 0
    /\ selected_stocks = <<>>
    /\ columns = <<>>
    /\ over_weight_stocks = NoTable
    /\ df_index = <<>>
    /\ err = "none"

SpecSelect == InitScored /\ [][SelectCall]_vars

\* ================================================================= claims
Abs(x) == IF x < 0 THEN -x ELSE x

\* the rows over the cap at the start of a capping iteration, read from the
\* frame itself: by mc_weight before the first _limit_cap, by adj_mc_weight after
OverNow ==
    IF HasColumn(columns, "adj_mc_weight")
    THEN OverMask(selected_stocks, "adj_mc_weight")
    ELSE OverMask(selected_stocks, "mc_weight")

WeightSum == Sum(Col(df_index, "weight"))

\* C1: once some rounded raw weight exceeds the cap and the capping loop is
\* entered, the loop ends: a state with no adj_mc_weight over the cap is
\* reached and _get_each_weight returns.
C1_CappingLoopTerminates == (pc = "cap") ~> (pc = "weighted")

\* C2: when no mc_weight exceeds the cap, the weighting ends without a capping
\* iteration and generate_index returns the table, each weight the raw weight.
C2_NoCapReturnsRawWeights ==
    (/\ pc \in {"weighted", "returned", "raised"}
     /\ HasColumn(columns, "mc_weight")
     /\ OverMask(selected_stocks, "mc_weight") = {})
    => /\ ~HasColumn(columns, "adj_mc_weight")
       /\ pc # "raised"
       /\ pc = "returned" =>
             /\ Len(df_index) = Len(selected_stocks)
             /\ \A i \in 1..Len(df_index) :
                   /\ df_index[i].ticker = selected_stocks[i].ticker
                   /\ df_index[i].weight = selected_stocks[i].mc_weight

\* C3: when the capping loop exits, and in every returned index, no weight
\* exceeds the cap of 0.15.
C3_ReturnedWeightsWithinCap ==
    /\ (pc = "weighted" /\ HasColumn(columns, "adj_mc_weight"))
          => \A i \in 1..Len(selected_stocks) : selected_stocks[i].adj_mc_weight <= limit_weight
    /\ pc = "returned"
          => /\ Len(df_index) = Len(selected_stocks)
             /\ \A i \in 1..Len(df_index) : df_index[i].weight <= limit_weight

\* a returned index of a set that had a raw weight over the cap, with a weight
\* brought down to the cap exactly
C3_Witness ==
    /\ pc = "returned"
    /\ \E i \in 1..Len(df_index) :
          selected_stocks[i].mc_weight > limit_weight /\ df_index[i].weight = limit_weight

\* C4 as stated: the returned weights sum to within 0.01 of 1.0.
C4_SumWithinOneHundredth == pc = "returned" => Abs(WeightSum - 1000) <= 10

\* C4, amended: the returned weights sum to within 0.0005 per constituent of
\* 1.0 (0.015 for 30 constituents).
C4_SumWithinHalfThousandthPerRow ==
    pc = "returned" => 2 * Abs(WeightSum - 1000) <= Len(df_index)

\* a returned index whose weights are more than 0.01 off 1.0
C4_Witness == pc = "returned" /\ Len(df_index) <= TopN /\ Abs(WeightSum - 1000) > 10

\* C8: after every _limit_cap, each row of the over-weight group holds 1/n_over
\* of the adj_mc it had when the iteration started.
C8_OverRowsGetShareOfOwnAdjMc ==
    pc = "test" =>
        \A r \in 1..Len(over_weight_stocks.rows) :
            selected_stocks[over_weight_stocks.rows[r].index].adj_mc * Len(over_weight_stocks.rows)
                = over_weight_stocks.rows[r].row.adj_mc

\* C9: _limit_cap leaves the tickers and their order, every mc and mc_weight,
\* and the adj_mc of every row not over the cap as they were; before the first
\* _limit_cap every adj_mc equals its mc.
C9_LimitCapStep ==
    pc = "cap" =>
        /\ Len(selected_stocks') = Len(selected_stocks)
        /\ \A i \in 1..Len(selected_stocks) :
              /\ selected_stocks'[i].ticker = selected_stocks[i].ticker
              /\ selected_stocks'[i].mc = selected_stocks[i].mc
              /\ selected_stocks'[i].mc_weight = selected_stocks[i].mc_weight
              /\ i \notin OverNow => selected_stocks'[i].adj_mc = selected_stocks[i].adj_mc
        /\ ~HasColumn(columns, "adj_mc_weight") =>
              \A i \in 1..Len(selected_stocks) : selected_stocks[i].adj_mc = selected_stocks[i].mc

C9_LimitCapFrame == [][C9_LimitCapStep]_vars

\* after a _limit_cap that changed an over-weight row beside a row under the cap
C9_Witness ==
    /\ pc = "test"
    /\ \E i, j \in 1..Len(selected_stocks) :
          /\ selected_stocks[i].adj_mc # selected_stocks[i].mc
          /\ \A r \in 1..Len(over_weight_stocks.rows) : over_weight_stocks.rows[r].index # j
          /\ selected_stocks[j].adj_mc = selected_stocks[j].mc

\* the row of the factor table that holds ticker t
RowOf(t) == selection_df[CHOOSE i \in 1..Len(selection_df) : selection_df[i].ticker = t]

PosOf(t) == CHOOSE i \in 1..Len(selection_df) : selection_df[i].ticker = t

\* row a of the factor table comes before row b in ascending score order, ties
\* in table order
Before(a, b) ==
    \/ AggLess(selection_df[a], selection_df[b])
    \/ ~AggLess(selection_df[b], selection_df[a]) /\ a < b

\* C5: _select_stocks(K) on N scored rows selects min(K, N) tickers, the K
\* lowest scores in ascending order, ties in table order.
C5_SelectsKLowest ==
    pc = "selected" =>
        /\ Len(selected_stocks) = Min(nstocks, nticker)
        /\ \A a, b \in 1..Len(selected_stocks) :
              a < b => Before(PosOf(selected_stocks[a].ticker), PosOf(selected_stocks[b].ticker))
        /\ \A a \in 1..Len(selected_stocks) : \A u \in 1..Len(selection_df) :
              (\A b \in 1..Len(selected_stocks) : selected_stocks[b].ticker # selection_df[u].ticker)
                  => Before(PosOf(selected_stocks[a].ticker), u)

\* C6: with fewer than 30 rows left after the drop, every stage still runs and
\* nothing is raised; what is selected and returned holds all the rows left.
C6_FewRowsStillComplete ==
    (pc \notin {"start", "queried"} /\ nticker < TopN) =>
        /\ err = "none"
        /\ pc # "raised"
        /\ pc = "selected" => Len(selected_stocks) = nticker

\* the universe positions whose two factors the provider supplies
Supplied ==
    {i \in 1..Len(ticker_idx80) : info[i].trailingPE # NaN /\ info[i].priceToBook # NaN}

WithinCutoffs(col, w) ==
    \E rk \in {RankDesc(col)} :
        LET n     == Len(col)
            At(r) == col[CHOOSE i \in 1..n : rk[i] = r]
        IN  \A i \in 1..n :
                /\ w[i] <= At(lb(n))
                /\ w[i] >= At(ub(n))
                /\ (lb(n) <= rk[i] /\ rk[i] < ub(n)) => w[i] = col[i]

\* C10: after _winsorisation, in each factor column no value is above the
\* original value at descending rank lb, none is below the one at rank ub, and
\* the values at the ranks from lb up to ub are as they were.
C10_WinsorisedWithinCutoffs ==
    pc = "winsorised" =>
        /\ WithinCutoffs(Col(selection_df, "PE"), Col(selection_df, "PE_wins"))
        /\ WithinCutoffs(Col(selection_df, "PBV"), Col(selection_df, "PBV_wins"))
====
